---- MODULE Spec2Model ----
(***************************************************************************)
(* A model of uniter.py (class ProjectCollector): the walk of a project    *)
(* directory, the analysis of its Python files, the rendering of the tree, *)
(* the summary report and the consolidated code file.                      *)
(*                                                                         *)
(* Text is a sequence of one-character strings; a file's bytes are a       *)
(* sequence of byte symbols.  An optional value (Python's None or a value) *)
(* is the empty sequence or a one-element sequence.  A dict is a record    *)
(* whose DOMAIN is its key set, or, where the order of the keys matters,   *)
(* a sequence of <<key, value>> pairs.                                     *)
(***************************************************************************)
EXTENDS Naturals, Sequences, FiniteSets

VARIABLES
    fs,            \* the directory tree under root_dir: a sequence of entries in listing order
    exclude_arg,   \* the exclude_dirs argument handed to __init__ (None or a set)
    exclude_dirs,  \* self.exclude_dirs
    scanned,       \* fs as it was when the last operation began
    op,            \* the last operation performed, with its arguments
    analysis,      \* what analyze_python_file returned last, with its file
    files_info,    \* what collect_files returned last
    tree,          \* what generate_tree_structure returned last (or the tree handed to print_tree)
    printed,       \* the lines print_tree wrote last
    report,        \* what generate_summary_report returned last
    consolidated,  \* what create_consolidated_code returned last
    clock,         \* datetime.now(), in seconds
    history,       \* the outputs of the runs of the entry point so far
    pc             \* the step of the entry point that comes next

vars == <<fs, exclude_arg, exclude_dirs, scanned, op, analysis, files_info, tree,
          printed, report, consolidated, clock, history, pc>>

----------------------------------------------------------------------------
(* Bounds of the model *)

MaxBytes == 2        \* bytes of a file
MaxStmts == 2        \* statements of a module
MaxNodes == 3        \* files and directories below the root, for the walk
MaxFiles == 2        \* files and directories below the root, for the outputs
MaxTreeNodes == 4    \* items of a tree handed to print_tree
MaxCalls == 1        \* calls of an operation that writes an output file
MaxRuns == 2         \* runs of the entry point

----------------------------------------------------------------------------
(* Optional values and sequences *)

None == <<>>
Some(v) == <<v>>

Range(s) == {s[i] : i \in 1..Len(s)}

RECURSIVE Concat(_)
Concat(ss) == IF ss = <<>> THEN <<>> ELSE Head(ss) \o Concat(Tail(ss))

RECURSIVE Sum(_)
Sum(ns) == IF ns = <<>> THEN 0 ELSE Head(ns) + Sum(Tail(ns))

RECURSIVE SelectSeqBy(_, _)
\* the list comprehension [x for x in s if x in keep]
SelectSeqBy(s, keep) ==
    IF s = <<>> THEN <<>>
    ELSE IF Head(s) \in keep THEN <<Head(s)>> \o SelectSeqBy(Tail(s), keep)
    ELSE SelectSeqBy(Tail(s), keep)

\* every sequence over S of length at most n
SeqsUpTo(S, n) == UNION {[1..k -> S] : k \in 0..n}

\* "abc"[:n]
Prefix(s, n) == SubSeq(s, 1, IF Len(s) < n THEN Len(s) ELSE n)

EndsWith(s, suffix) ==
    /\ Len(suffix) <= Len(s)
    /\ SubSeq(s, Len(s) - Len(suffix) + 1, Len(s)) = suffix

----------------------------------------------------------------------------
(* Reading a file as text: open(filepath, 'r', encoding='utf-8').read() *)

LF == "\n"
CR == "\r"
FF == "\f"
BAD == "0xFF"                    \* a byte that is not valid UTF-8
Byte == {"x", LF, CR, FF, BAD}

RECURSIVE UniversalNewlines(_)
\* text mode with newline=None: "\r\n" and "\r" are read as "\n"
UniversalNewlines(bs) ==
    IF bs = <<>> THEN <<>>
    ELSE IF Head(bs) = CR
         THEN IF Len(bs) >= 2 /\ bs[2] = LF
              THEN <<LF>> \o UniversalNewlines(Tail(Tail(bs)))
              ELSE <<LF>> \o UniversalNewlines(Tail(bs))
         ELSE <<Head(bs)>> \o UniversalNewlines(Tail(bs))

\* [content |-> text], or [error |-> str(e)] when open() or the decoding raises
ReadText(file) ==
    IF ~file.readable THEN [error |-> "PermissionError"]
    ELSE IF BAD \in Range(file.bytes) THEN [error |-> "UnicodeDecodeError"]
    ELSE [content |-> UniversalNewlines(file.bytes)]

\* the line boundaries of str.splitlines that the byte symbols can spell
LineBoundary == {LF, CR, FF}

RECURSIVE SplitLinesFrom(_, _)
\* str.splitlines(): cur is the line being read
SplitLinesFrom(text, cur) ==
    IF text = <<>> THEN (IF cur = <<>> THEN <<>> ELSE <<cur>>)
    ELSE IF Head(text) \in LineBoundary
         THEN IF Head(text) = CR /\ Len(text) >= 2 /\ text[2] = LF
              THEN <<cur>> \o SplitLinesFrom(Tail(Tail(text)), <<>>)
              ELSE <<cur>> \o SplitLinesFrom(Tail(text), <<>>)
         ELSE SplitLinesFrom(Tail(text), Append(cur, Head(text)))

splitlines(text) == SplitLinesFrom(text, <<>>)

----------------------------------------------------------------------------
(* Syntax trees: what ast.parse returns.  A node carries its type, the     *)
(* fields analyze_python_file reads, and its child statements.             *)

Stmt(type) ==
    [type |-> type, names |-> <<>>, module |-> None, name |-> <<>>,
     args |-> <<>>, docstring |-> None, lineno |-> 1, body |-> <<>>]

Import(names) == [Stmt("Import") EXCEPT !.names = names]
ImportFrom(module, names) == [Stmt("ImportFrom") EXCEPT !.module = module, !.names = names]
FunctionDef(name, args, doc, body) ==
    [Stmt("FunctionDef") EXCEPT !.name = name, !.args = args, !.docstring = doc, !.body = body]
ClassDef(name, doc, body) ==
    [Stmt("ClassDef") EXCEPT !.name = name, !.docstring = doc, !.body = body]
Module(doc, body) == [Stmt("Module") EXCEPT !.docstring = doc, !.body = body]

\* ast.parse raised
SyntaxError == [error |-> "SyntaxError"]

RECURSIVE walk(_)
\* ast.walk: breadth first, todo is the deque of nodes still to yield
walk(todo) ==
    IF todo = <<>> THEN <<>>
    ELSE <<Head(todo)>> \o walk(Tail(todo) \o Head(todo).body)

\* ', '.join(parts)
RECURSIVE Join(_)
Join(parts) ==
    IF parts = <<>> THEN <<>>
    ELSE IF Len(parts) = 1 THEN parts[1]
    ELSE parts[1] \o <<",", " ">> \o Join(Tail(parts))

RECURSIVE NamesOf(_, _)
\* [n.name for n in nodes if isinstance(n, <type>)]
NamesOf(nodes, type) ==
    IF nodes = <<>> THEN <<>>
    ELSE IF Head(nodes).type = type THEN <<Head(nodes).name>> \o NamesOf(Tail(nodes), type)
    ELSE NamesOf(Tail(nodes), type)

\* f"{node.module}.{', '.join([alias.name for alias in node.names])}"
FromImportEntriesPerName(node) ==
    [i \in 1..Len(node.names) |-> node.module[1] \o <<".">> \o node.names[i]]

FromImportEntries(node) ==
    <<node.module[1] \o <<".">> \o Join(node.names)>>

\* what one node of the walk adds to analysis['imports']
ImportsOf(node) ==
    IF node.type = "Import" THEN node.names
    ELSE IF node.type = "ImportFrom" /\ node.module # None THEN FromImportEntries(node)
    ELSE <<>>

FunctionInfo(node) ==
    [name |-> node.name, args |-> node.args, docstring |-> node.docstring, line |-> node.lineno]

ClassInfo(node) ==
    [name |-> node.name, methods |-> NamesOf(node.body, "FunctionDef"),
     docstring |-> node.docstring, line |-> node.lineno]

RECURSIVE CollectImports(_)
CollectImports(nodes) ==
    IF nodes = <<>> THEN <<>> ELSE ImportsOf(Head(nodes)) \o CollectImports(Tail(nodes))

RECURSIVE CollectFunctions(_)
CollectFunctions(nodes) ==
    IF nodes = <<>> THEN <<>>
    ELSE (IF Head(nodes).type = "FunctionDef" THEN <<FunctionInfo(Head(nodes))>> ELSE <<>>)
         \o CollectFunctions(Tail(nodes))

RECURSIVE CollectClasses(_)
CollectClasses(nodes) ==
    IF nodes = <<>> THEN <<>>
    ELSE (IF Head(nodes).type = "ClassDef" THEN <<ClassInfo(Head(nodes))>> ELSE <<>>)
         \o CollectClasses(Tail(nodes))

\* len(content.splitlines())
LineCountBreaksPlusOne(content) == Len(SelectSeq(content, LAMBDA c : c \in LineBoundary)) + 1

LineCount(content) == Len(splitlines(content))

\* analyze_python_file: the analysis, or {'error': str(e)} for whatever was raised
analyze_python_file(file) ==
    LET read == ReadText(file) IN
    IF "error" \in DOMAIN read THEN [error |-> read.error]
    ELSE IF "error" \in DOMAIN file.tree THEN [error |-> file.tree.error]
    ELSE LET nodes == walk(<<file.tree>>) IN
         [imports |-> CollectImports(nodes),
          functions |-> CollectFunctions(nodes),
          classes |-> CollectClasses(nodes),
          docstring |-> file.tree.docstring,
          lines |-> LineCount(read.content)]

----------------------------------------------------------------------------
(* The directory tree.  An entry of a directory is a file                  *)
(* [name, kind |-> "file", bytes, tree, readable] or a directory           *)
(* [name, kind |-> "dir", entries]; the entries of a directory are in the  *)
(* order in which os.scandir lists them.                                   *)

SEP == "/"

FileEntry(name, bytes, tree_, readable) ==
    [name |-> name, kind |-> "file", bytes |-> bytes, tree |-> tree_, readable |-> readable]

DirEntry(name, entries) == [name |-> name, kind |-> "dir", entries |-> entries]

Names(entries) == {entries[i].name : i \in 1..Len(entries)}

RECURSIVE JoinPath(_)
\* str(Path(...)): the parts joined by the separator
JoinPath(parts) ==
    IF parts = <<>> THEN <<>>
    ELSE IF Len(parts) = 1 THEN parts[1]
    ELSE parts[1] \o <<SEP>> \o JoinPath(Tail(parts))

RECURSIVE SplitPathFrom(_, _)
SplitPathFrom(text, cur) ==
    IF text = <<>> THEN <<cur>>
    ELSE IF Head(text) = SEP THEN <<cur>> \o SplitPathFrom(Tail(text), <<>>)
    ELSE SplitPathFrom(Tail(text), Append(cur, Head(text)))

\* the parts of a relative path
SplitPath(text) == SplitPathFrom(text, <<>>)

\* str.rfind('.') as a position from 1, 0 when there is no dot
RFindDot(name) ==
    LET dots == {i \in 1..Len(name) : name[i] = "."}
    IN IF dots = {} THEN 0 ELSE CHOOSE i \in dots : \A j \in dots : j <= i

\* PurePath.suffix: the last dot and what follows it, unless the dot begins or ends the name
suffix(name) ==
    LET i == RFindDot(name)
    IN IF 1 < i /\ i < Len(name) THEN SubSeq(name, i, Len(name)) ELSE <<>>

EntryNamed(entries, name) ==
    CHOOSE e \in Range(entries) : e.name = name

RECURSIVE Resolve(_, _)
\* the file a path names, as a one-element sequence, or <<>> when there is none
Resolve(entries, parts) ==
    IF parts = <<>> \/ ~\E e \in Range(entries) : e.name = Head(parts) THEN <<>>
    ELSE LET e == EntryNamed(entries, Head(parts))
         IN IF Len(parts) = 1 THEN (IF e.kind = "file" THEN <<e>> ELSE <<>>)
            ELSE IF e.kind = "dir" THEN Resolve(e.entries, Tail(parts))
            ELSE <<>>

RECURSIVE NamesOfKind(_, _)
\* the names os.walk puts in dirs (kind "dir") and in files (kind "file")
NamesOfKind(entries, kind) ==
    IF entries = <<>> THEN <<>>
    ELSE (IF Head(entries).kind = kind THEN <<Head(entries).name>> ELSE <<>>)
         \o NamesOfKind(Tail(entries), kind)

\* dirs[:] = [d for d in dirs if d not in self.exclude_dirs]
PruneNothing(dirs, exclude) == dirs

Prune(dirs, exclude) == SelectSeqBy(dirs, Range(dirs) \ exclude)

RECURSIVE os_walk(_, _, _)
RECURSIVE WalkInto(_, _, _, _)
\* os.walk(top), top down, with the caller's pruning of dirs applied before the descent:
\* a sequence of [root, dirs, files], root being the parts of the path below the top
os_walk(root, entries, exclude) ==
    LET dirs == Prune(NamesOfKind(entries, "dir"), exclude)
    IN <<[root |-> root, dirs |-> dirs, files |-> NamesOfKind(entries, "file")]>>
       \o WalkInto(root, entries, dirs, exclude)

WalkInto(root, entries, dirs, exclude) ==
    IF dirs = <<>> THEN <<>>
    ELSE os_walk(Append(root, Head(dirs)), EntryNamed(entries, Head(dirs)).entries, exclude)
         \o WalkInto(root, entries, Tail(dirs), exclude)

----------------------------------------------------------------------------
(* __init__ *)

DOT == "."
default_exclude_dirs ==
    {<<"_", "_", "p", "y", "c", "a", "c", "h", "e", "_", "_">>, <<DOT, "g", "i", "t">>,
     <<DOT, "v", "e", "n", "v">>, <<"v", "e", "n", "v">>,
     <<"n", "o", "d", "e", "_", "m", "o", "d", "u", "l", "e", "s">>, <<DOT, "i", "d", "e", "a">>}

\* self.exclude_dirs = exclude_dirs or {...}: None and the empty set are both falsy
init_exclude_dirs(arg) ==
    IF arg = None \/ arg[1] = {} THEN default_exclude_dirs ELSE arg[1]

\* self.exclude_files, as constructed without the argument
exclude_files ==
    {<<"*", DOT, "p", "y", "c">>, <<"*", DOT, "p", "y", "o">>,
     <<DOT, "D", "S", "_", "S", "t", "o", "r", "e">>}

----------------------------------------------------------------------------
(* collect_files *)

PY == <<DOT, "p", "y">>
MD == <<DOT, "m", "d">>
default_extensions ==
    <<PY, MD, <<DOT, "t", "x", "t">>, <<DOT, "y", "m", "l">>,
      <<DOT, "y", "a", "m", "l">>, <<DOT, "j", "s", "o", "n">>>>

\* the record of one file: info, with info['analysis'] for a .py file
FileInfo(root, file) ==
    LET base == [path |-> JoinPath(Append(root, file.name)),
                 size |-> Len(file.bytes),
                 extension |-> suffix(file.name)]
    IN IF suffix(file.name) = PY
       THEN [path |-> base.path, size |-> base.size, extension |-> base.extension,
             analysis |-> analyze_python_file(file)]
       ELSE base

RECURSIVE CollectIn(_, _, _, _)
\* for file in files: ... files_info.append(info)
CollectIn(root, entries, files, extensions) ==
    IF files = <<>> THEN <<>>
    ELSE (IF suffix(Head(files)) \in Range(extensions)
          THEN <<FileInfo(root, EntryNamed(entries, Head(files)))>> ELSE <<>>)
         \o CollectIn(root, entries, Tail(files), extensions)

RECURSIVE DirEntries(_, _)
\* the entries of the directory at root (the parts of its path)
DirEntries(entries, root) ==
    IF root = <<>> THEN entries
    ELSE DirEntries(EntryNamed(entries, Head(root)).entries, Tail(root))

RECURSIVE CollectSteps(_, _, _)
\* for root, dirs, files in os.walk(self.root_dir): ...
CollectSteps(top, steps, extensions) ==
    IF steps = <<>> THEN <<>>
    ELSE CollectIn(Head(steps).root, DirEntries(top, Head(steps).root),
                   Head(steps).files, extensions)
         \o CollectSteps(top, Tail(steps), extensions)

\* extensions = extensions or [...]
effective_extensions(extensions) ==
    IF extensions = None \/ extensions[1] = <<>> THEN default_extensions ELSE extensions[1]

collect_files(top, exclude, extensions) ==
    CollectSteps(top, os_walk(<<>>, top, exclude), effective_extensions(extensions))

----------------------------------------------------------------------------
(* generate_tree_structure and print_tree.  The tree is a dict in          *)
(* insertion order: [items |-> <<[name, sub], ...>>], sub being the file   *)
(* marker or the dict of a directory.                                      *)

FileMarker == [marker |-> "file"]
EmptyDict == [items |-> <<>>]

HasKey(dict, key) == \E i \in 1..Len(dict.items) : dict.items[i].name = key

GetKey(dict, key) == (CHOOSE it \in Range(dict.items) : it.name = key).sub

\* dict[key] = value: a new key goes last, a known key keeps its place
SetKey(dict, key, value) ==
    IF HasKey(dict, key)
    THEN [items |-> [i \in 1..Len(dict.items) |->
                        IF dict.items[i].name = key
                        THEN [name |-> key, sub |-> value] ELSE dict.items[i]]]
    ELSE [items |-> Append(dict.items, [name |-> key, sub |-> value])]

\* any(file.endswith(ext.replace('*', '')) for ext in self.exclude_files)
ExcludedFile(file) ==
    \E ext \in exclude_files : EndsWith(file, SelectSeq(ext, LAMBDA c : c # "*"))

RECURSIVE AddFiles(_, _)
\* for file in files: if not excluded: current_level[file] = 'file'
AddFiles(level, files) ==
    IF files = <<>> THEN level
    ELSE AddFiles(IF ExcludedFile(Head(files)) THEN level
                  ELSE SetKey(level, Head(files), FileMarker), Tail(files))

RECURSIVE AtLevel(_, _, _)
\* the tree after the visit of one directory: the levels of path_parts are created
\* where missing, and the files are added to the last one
AtLevel(level, path_parts, files) ==
    IF path_parts = <<>> THEN AddFiles(level, files)
    ELSE LET part == Head(path_parts)
             made == IF HasKey(level, part) THEN level ELSE SetKey(level, part, EmptyDict)
         IN SetKey(made, part, AtLevel(GetKey(made, part), Tail(path_parts), files))

RECURSIVE TreeSteps(_, _)
TreeSteps(acc, steps) ==
    IF steps = <<>> THEN acc
    ELSE TreeSteps(AtLevel(acc, Head(steps).root, Head(steps).files), Tail(steps))

generate_tree_structure(top, exclude) ==
    TreeSteps(EmptyDict, os_walk(<<>>, top, exclude))

\* the four-character blocks of a line, the box-drawing characters (U+2514, U+251C,
\* U+2500, U+2502) written in ASCII
CORNER == "L-- "
TEE == "+-- "
BLANK == "    "
BAR == "|   "

\* the connector of item i of n
ConnectorAlwaysTee(i, n) == TEE

Connector(i, n) == IF i = n THEN CORNER ELSE TEE

\* what is added to the prefix below item i of n
Extension(i, n) == IF i = n THEN BLANK ELSE BAR

RECURSIVE print_tree(_, _)
RECURSIVE PrintItems(_, _, _)
\* the lines printed: a line is its prefix blocks, its connector, the characters of the
\* name and, for a directory, the '/'
print_tree(dict, prefix) == PrintItems(dict.items, prefix, 1)

PrintItems(items, prefix, i) ==
    IF i > Len(items) THEN <<>>
    ELSE LET name == items[i].name
             subtree == items[i].sub
             head == prefix \o <<Connector(i, Len(items))>> \o name
         IN (IF subtree = FileMarker THEN <<head>>
             ELSE <<head \o <<"/">>>>
                  \o print_tree(subtree, prefix \o <<Extension(i, Len(items))>>))
            \o PrintItems(items, prefix, i + 1)

----------------------------------------------------------------------------
(* Ordering and formatting of text *)

\* the characters of the model in the order of their code points
Ascii ==
    <<LF, FF, CR, " ", "(", ")", "*", ",", "-", DOT, "/",
      "0", "1", "2", "3", "4", "5", "6", "7", "8", "9", "=", "C", "D", "S", "_",
      "a", "b", "c", "d", "e", "f", "g", "h", "i", "j", "k", "l", "m", "n", "o", "p",
      "q", "r", "s", "t", "u", "v", "w", "x", "y", "z">>

Ord(c) == CHOOSE i \in 1..Len(Ascii) : Ascii[i] = c

\* a < b for str: by code point, a proper prefix first
TextLess(a, b) ==
    \/ Len(a) < Len(b) /\ SubSeq(b, 1, Len(a)) = a
    \/ \E i \in 1..Len(a) :
          /\ i <= Len(b)
          /\ SubSeq(a, 1, i - 1) = SubSeq(b, 1, i - 1)
          /\ Ord(a[i]) < Ord(b[i])

RECURSIVE InsertByName(_, _)
\* x put behind every element whose name is not greater: the sort is stable
InsertByName(sorted_, x) ==
    IF sorted_ = <<>> THEN <<x>>
    ELSE IF TextLess(x.name, Head(sorted_).name) THEN <<x>> \o sorted_
    ELSE <<Head(sorted_)>> \o InsertByName(Tail(sorted_), x)

RECURSIVE SortInto(_, _)
SortInto(sorted_, rest) ==
    IF rest = <<>> THEN sorted_ ELSE SortInto(InsertByName(sorted_, Head(rest)), Tail(rest))

\* sorted(items, key=lambda x: x['name'])
sorted_by_name(items) == SortInto(<<>>, items)

RECURSIVE sorted_set(_)
\* sorted(a set of str)
sorted_set(texts) ==
    IF texts = {} THEN <<>>
    ELSE LET least == CHOOSE t \in texts : \A u \in texts \ {t} : TextLess(t, u)
         IN <<least>> \o sorted_set(texts \ {least})

RECURSIVE Digits(_)
\* str(n) of a natural number
Digits(n) ==
    LET digit == <<"0", "1", "2", "3", "4", "5", "6", "7", "8", "9">>[(n % 10) + 1]
    IN IF n < 10 THEN <<digit>> ELSE Digits(n \div 10) \o <<digit>>

\* One line of an output: the literal text of its template, named by kind, with the
\* values put into it.
Line(kind, name, detail) == [kind |-> kind, name |-> name, detail |-> detail]

Blank == Line("blank", <<>>, <<>>)

RECURSIVE Render(_)
\* the text of the lines, as written to a file
Render(lines) ==
    IF lines = <<>> THEN <<>>
    ELSE (IF Head(lines).kind \in {"content", "blank"} THEN <<>> ELSE <<Head(lines).kind>>)
         \o Head(lines).name \o Head(lines).detail \o <<LF>>
         \o Render(Tail(lines))

----------------------------------------------------------------------------
(* generate_summary_report *)

\* the functions listed and the imports listed
TopFunctions == 20
TopImports == 15
\* the characters of a docstring shown
DocPreview == 100

\* f.get('analysis', {}).get('lines', 0)
LinesOrOne(info) ==
    IF "analysis" \in DOMAIN info /\ "lines" \in DOMAIN info.analysis
    THEN info.analysis.lines ELSE 1

LinesOr0(info) ==
    IF "analysis" \in DOMAIN info /\ "lines" \in DOMAIN info.analysis
    THEN info.analysis.lines ELSE 0

\* item['file'] = file_info['path'] for every item
Tagged(items, path) ==
    [i \in 1..Len(items) |->
        [name |-> items[i].name, docstring |-> items[i].docstring, file |-> path,
         list |-> IF "args" \in DOMAIN items[i] THEN items[i].args ELSE items[i].methods]]

RECURSIVE AllOf(_, _)
\* all_functions (key "functions") and all_classes (key "classes")
AllOf(python_files, key) ==
    IF python_files = <<>> THEN <<>>
    ELSE LET a == IF "analysis" \in DOMAIN Head(python_files)
                  THEN Head(python_files).analysis ELSE [none |-> TRUE]
         IN (IF key \in DOMAIN a THEN Tagged(a[key], Head(python_files).path) ELSE <<>>)
            \o AllOf(Tail(python_files), key)

RECURSIVE AllImports(_)
AllImports(python_files) ==
    IF python_files = <<>> THEN {}
    ELSE LET a == IF "analysis" \in DOMAIN Head(python_files)
                  THEN Head(python_files).analysis ELSE [none |-> TRUE]
         IN (IF "imports" \in DOMAIN a THEN Range(a.imports) ELSE {})
            \cup AllImports(Tail(python_files))

\* the lines of one class or function: the entry, its docstring if it has one, its
\* methods or arguments if it has any
EntryLines(kind, listed, item) ==
    <<Line(kind, item.name, item.file)>>
    \o (IF item.docstring # None /\ item.docstring[1] # <<>>
        THEN <<Line("doc", <<>>, Prefix(item.docstring[1], DocPreview) \o <<DOT, DOT, DOT>>)>>
        ELSE <<>>)
    \o (IF item.list # <<>> THEN <<Line(listed, <<>>, Join(item.list))>> ELSE <<>>)

RECURSIVE SectionLines(_, _, _)
SectionLines(kind, listed, items) ==
    IF items = <<>> THEN <<>>
    ELSE EntryLines(kind, listed, Head(items)) \o SectionLines(kind, listed, Tail(items))

\* sorted(all_functions, key=...)[:20]
ListedFunctionsUnsorted(all_functions) == Prefix(all_functions, TopFunctions)

ListedFunctions(all_functions) == Prefix(sorted_by_name(all_functions), TopFunctions)

ClassesSection(all_classes) ==
    IF all_classes # <<>>
    THEN <<Line("## classes", <<>>, <<>>)>>
         \o SectionLines("class", "methods", sorted_by_name(all_classes)) \o <<Blank>>
    ELSE <<>>

FunctionsSection(all_functions) ==
    IF all_functions # <<>>
    THEN <<Line("## functions", <<>>, <<>>)>>
         \o SectionLines("function", "args", ListedFunctions(all_functions)) \o <<Blank>>
    ELSE <<>>

ImportsSection(all_imports) ==
    IF all_imports # {}
    THEN LET listed == Prefix(sorted_set(all_imports), TopImports)
         IN <<Line("## imports", <<>>, <<>>)>>
            \o [i \in 1..Len(listed) |-> Line("import", <<>>, listed[i])] \o <<Blank>>
    ELSE <<>>

\* the report, line by line: now is datetime.now(), root_name is self.root_dir.name
summary_report(top, exclude, now, root_name) ==
    LET infos == collect_files(top, exclude, None)
        dict == generate_tree_structure(top, exclude)
        python_files == SelectSeq(infos, LAMBDA f : f.extension = PY)
        total_lines == Sum([i \in 1..Len(python_files) |-> LinesOr0(python_files[i])])
        all_functions == AllOf(python_files, "functions")
        all_classes == AllOf(python_files, "classes")
        all_imports == AllImports(python_files)
        tree_output == print_tree(dict, <<>>)
    IN <<Line("# report", <<>>, <<>>),
         Line("date", <<>>, Digits(now)),
         Blank,
         Line("## statistics", <<>>, <<>>),
         Line("files", <<>>, Digits(Len(infos))),
         Line("python files", <<>>, Digits(Len(python_files))),
         Line("lines of code", <<>>, Digits(total_lines)),
         Line("functions", <<>>, Digits(Len(all_functions))),
         Line("classes", <<>>, Digits(Len(all_classes))),
         Line("unique imports", <<>>, Digits(Cardinality(all_imports))),
         Blank,
         Line("## structure", <<>>, <<>>),
         Line("fence", <<>>, <<>>),
         Line("root", root_name, <<"/">>)>>
       \o [i \in 1..Len(tree_output) |-> Line("tree", <<>>, tree_output[i])]
       \o <<Line("fence", <<>>, <<>>), Blank>>
       \o ClassesSection(all_classes)
       \o FunctionsSection(all_functions)
       \o ImportsSection(all_imports)

\* open(name, 'w').write(text) in the root directory: a new file is listed last
WriteFile(top, name, text, tree_) ==
    IF name \in Names(top)
    THEN [i \in 1..Len(top) |->
             IF top[i].name = name THEN FileEntry(name, text, tree_, TRUE) ELSE top[i]]
    ELSE Append(top, FileEntry(name, text, tree_, TRUE))

----------------------------------------------------------------------------
(* create_consolidated_code *)

\* the default of max_file_size
default_max_file_size == 50000

\* if file_info['size'] > max_file_size
TooBigAtTheLimit(size, max_file_size) == size >= max_file_size

TooBig(size, max_file_size) == size > max_file_size

\* open(filepath).read() of a file enumerated before: `lost` are the paths that became
\* unreadable since
ReadAgain(top, path, lost) ==
    IF path \in lost THEN [error |-> "FileNotFoundError"]
    ELSE ReadText(Resolve(top, SplitPath(path))[1])

\* analysis.get(key), made a list: empty when the key is missing
AnalysisList(info, key) ==
    IF "analysis" \in DOMAIN info /\ key \in DOMAIN info.analysis
    THEN info.analysis[key] ELSE <<>>

BannerLines(info) ==
    LET functions == AnalysisList(info, "functions")
        classes == AnalysisList(info, "classes")
    IN <<Line("# ====", <<>>, <<>>),
         Line("# file", info.path, <<>>),
         Line("# size", <<>>, Digits(info.size))>>
       \o (IF functions # <<>>
           THEN <<Line("# functions", <<>>,
                       Join([i \in 1..Len(functions) |-> functions[i].name]))>>
           ELSE <<>>)
       \o (IF classes # <<>>
           THEN <<Line("# classes", <<>>, Join([i \in 1..Len(classes) |-> classes[i].name]))>>
           ELSE <<>>)
       \o <<Line("# ====", <<>>, <<>>), Blank>>

\* the try block: the banner and the content, or the error banner alone
ReadLinesBannerFirst(info, read) ==
    IF "error" \in DOMAIN read
    THEN BannerLines(info) \o <<Line("# read error", info.path, <<read.error>>), Blank>>
    ELSE BannerLines(info) \o <<Line("content", <<>>, read.content), Blank>>

ReadLines(info, read) ==
    IF "error" \in DOMAIN read
    THEN <<Line("# read error", info.path, <<read.error>>), Blank>>
    ELSE BannerLines(info) \o <<Line("content", <<>>, read.content), Blank>>

\* what one file adds to the output
FileLines(top, info, max_file_size, lost) ==
    IF TooBig(info.size, max_file_size)
    THEN <<Line("# too big", info.path, Digits(info.size)), Blank>>
    ELSE ReadLines(info, ReadAgain(top, info.path, lost))

RECURSIVE ConsolidateFiles(_, _, _, _)
ConsolidateFiles(top, python_files, max_file_size, lost) ==
    IF python_files = <<>> THEN <<>>
    ELSE FileLines(top, Head(python_files), max_file_size, lost)
         \o ConsolidateFiles(top, Tail(python_files), max_file_size, lost)

consolidated_code(top, exclude, now, max_file_size, lost) ==
    LET python_files ==
            SelectSeq(collect_files(top, exclude, None), LAMBDA f : f.extension = PY)
    IN <<Line("docstring opens", <<>>, <<>>),
         Line("=== consolidated code ===", <<>>, <<>>),
         Line("date", <<>>, Digits(now)),
         Line("files", <<>>, Digits(Len(python_files))),
         Blank,
         Line("structure", <<>>, <<>>),
         Line("docstring closes", <<>>, <<>>),
         Blank>>
       \o ConsolidateFiles(top, python_files, max_file_size, lost)

RECURSIVE EmbeddedTrees(_, _)
\* the syntax trees of the files whose content the lines embed, in their order
EmbeddedTrees(top, lines) ==
    IF lines = <<>> THEN <<>>
    ELSE (IF Head(lines).kind = "# file"
          THEN <<Resolve(top, SplitPath(Head(lines).name))[1].tree>> ELSE <<>>)
         \o EmbeddedTrees(top, Tail(lines))

\* What ast.parse makes of the consolidated file: its banners are comments, so it is the
\* embedded files one after the other below the docstring that opens it; it does not
\* parse when one of them does not.
ParseConsolidated(top, lines) ==
    LET trees == EmbeddedTrees(top, lines)
    IN IF \E i \in 1..Len(trees) : "error" \in DOMAIN trees[i] THEN SyntaxError
       ELSE Module(Some(<<"=== consolidated code ===">>),
                   Concat([i \in 1..Len(trees) |-> trees[i].body]))

----------------------------------------------------------------------------
(* The inputs *)

os == <<"o", "s">>
re == <<"r", "e">>

StmtSamples ==
    {Import(<<os, re>>),
     ImportFrom(Some(os), <<<<"p", "a", "t", "h">>, <<"s", "e", "p">>>>),
     ImportFrom(None, <<<<"x">>>>),
     FunctionDef(<<"f">>, <<<<"a">>>>, None, <<ImportFrom(Some(<<"m">>), <<<<"n">>>>)>>),
     ClassDef(<<"C">>, Some(<<"d", "o", "c">>),
              <<FunctionDef(<<"m">>, <<<<"s", "e", "l", "f">>>>, None, <<>>)>>)}

\* what ast.parse may make of a file
ParseSamples ==
    {SyntaxError} \cup {Module(None, body) : body \in SeqsUpTo(StmtSamples, MaxStmts)}

ByteSeqs == SeqsUpTo(Byte, MaxBytes)

M_PY == <<"m", DOT, "p", "y">>

AnalyzeInputs ==
    {FileEntry(M_PY, bytes, t, TRUE) : bytes \in ByteSeqs, t \in ParseSamples}
    \cup {FileEntry(M_PY, <<"x">>, Module(None, <<>>), FALSE)}

Untouched ==
    /\ scanned = <<>>
    /\ op = [name |-> "init"]
    /\ analysis = None
    /\ files_info = <<>>
    /\ tree = EmptyDict
    /\ printed = <<>>
    /\ report = None
    /\ consolidated = None
    /\ clock = 0
    /\ history = <<>>
    /\ pc = "report"

\* ProjectCollector(root_dir, exclude_dirs)
Construct(arg) ==
    /\ exclude_arg = arg
    /\ exclude_dirs = init_exclude_dirs(arg)

----------------------------------------------------------------------------
(* The analysis of one file *)

InitAnalyze ==
    /\ \E file \in AnalyzeInputs : fs = <<file>>
    /\ Construct(None)
    /\ Untouched

AnalyzePythonFile ==
    \E i \in 1..Len(fs) :
        /\ fs[i].kind = "file"
        /\ analysis' = Some(analyze_python_file(fs[i]))
        /\ op' = [name |-> "analyze_python_file", file |-> fs[i].name]
        /\ scanned' = fs
        /\ UNCHANGED <<fs, exclude_arg, exclude_dirs, files_info, tree, printed,
                       report, consolidated, clock, history, pc>>

NextAnalyze == AnalyzePythonFile

SpecAnalyze == InitAnalyze /\ [][NextAnalyze]_vars

\* the file analysed last and what was returned for it
Analysed == op.name = "analyze_python_file"
AnalysedFile == EntryNamed(scanned, op.file)
AnalysedOk == Analysed /\ "lines" \in DOMAIN analysis[1]

\* the line breaks of the raw text: "\n", "\r", "\f", and "\r\n" as one
RawLineBreaks(bytes) ==
    Cardinality({i \in 1..Len(bytes) :
                    /\ bytes[i] \in LineBoundary
                    /\ ~(bytes[i] = LF /\ i > 1 /\ bytes[i - 1] = CR)})

EndsWithLineBreak(bytes) == bytes # <<>> /\ bytes[Len(bytes)] \in LineBoundary

\* C5 as stated: for every source file that parses successfully, the line count of the
\* analysis is the number of line breaks of the raw text plus one, with or without a
\* trailing line break.
C5_LinesAreBreaksPlusOne ==
    AnalysedOk => analysis[1].lines = RawLineBreaks(AnalysedFile.bytes) + 1

\* C5 as amended: for every source file that parses successfully, the line count is the
\* number of line breaks of the raw text, plus one only when the text is not empty and
\* does not end with a line break.
C5_LinesAreSplitLines ==
    AnalysedOk =>
        analysis[1].lines =
            RawLineBreaks(AnalysedFile.bytes)
            + (IF AnalysedFile.bytes = <<>> \/ EndsWithLineBreak(AnalysedFile.bytes)
               THEN 0 ELSE 1)

\* a parsed file of one line that ends with a line break has been analysed
C5_Witness ==
    /\ AnalysedOk
    /\ AnalysedFile.bytes = <<"x", LF>>
    /\ analysis[1].lines = 1

RECURSIVE Descend(_)
\* every node below the given statements, each once
Descend(nodes) ==
    IF nodes = <<>> THEN <<>>
    ELSE <<Head(nodes)>> \o Descend(Head(nodes).body) \o Descend(Tail(nodes))

FromImports(t) ==
    SelectSeq(Descend(t.body), LAMBDA n : n.type = "ImportFrom" /\ n.module # None)

PlainImports(t) == SelectSeq(Descend(t.body), LAMBDA n : n.type = "Import")

RECURSIVE CountNames(_)
CountNames(nodes) ==
    IF nodes = <<>> THEN 0 ELSE Len(Head(nodes).names) + CountNames(Tail(nodes))

RECURSIVE CommaSeparated(_, _)
\* the first k names, each but the first preceded by a comma and a blank
CommaSeparated(names, k) ==
    IF k = 0 THEN <<>>
    ELSE IF k = 1 THEN names[1]
    ELSE CommaSeparated(names, k - 1) \o <<",", " ">> \o names[k]

\* "X.A, B" for the statement 'from X import A, B'
FromImportString(n) == n.module[1] \o <<DOT>> \o CommaSeparated(n.names, Len(n.names))

Occurrences(seq, v) == Cardinality({i \in 1..Len(seq) : seq[i] = v})

----------------------------------------------------------------------------
(* The walk of a directory tree *)

RECURSIVE Forests(_, _, _)
\* the directory contents of at most n files and directories in all, the files among
\* `files`, the directories named from `dirs`, no name twice in a directory
Forests(n, files, dirs) ==
    IF n = 0 THEN {<<>>}
    ELSE {<<>>} \cup UNION {
             UNION {{<<e>> \o rest : rest \in {r \in Forests(n - k, files, dirs) :
                                                    e.name \notin Names(r)}} :
                    e \in files \cup {DirEntry(d, sub) :
                                         d \in dirs, sub \in Forests(k - 1, files, dirs)}} :
             k \in 1..n}

PlainFile(name) == FileEntry(name, <<"x">>, Module(None, <<>>), TRUE)

A_PY == <<"a", DOT, "p", "y">>
B_MD == <<"b", DOT, "m", "d">>
C_PYC == <<"c", DOT, "p", "y", "c">>
DOT_PY == <<DOT, "p", "y">>
SUB == <<"s", "u", "b">>
GIT == <<DOT, "g", "i", "t">>

WalkFiles == {PlainFile(name) : name \in {A_PY, B_MD, C_PYC, DOT_PY}}
WalkDirs == {SUB, GIT}

\* the exclude_dirs argument: left out, the empty set, a set of the caller's
ExcludeArgs == {None, Some({}), Some({SUB})}

\* the extensions argument of collect_files: left out, or a list of the caller's
ExtensionArgs == {None, Some(<<MD>>)}

InitWalk ==
    /\ fs \in Forests(MaxNodes, WalkFiles, WalkDirs)
    /\ \E arg \in ExcludeArgs : Construct(arg)
    /\ Untouched

CollectFiles ==
    \E extensions \in ExtensionArgs :
        /\ files_info' = collect_files(fs, exclude_dirs, extensions)
        /\ op' = [name |-> "collect_files", extensions |-> effective_extensions(extensions)]
        /\ scanned' = fs
        /\ UNCHANGED <<fs, exclude_arg, exclude_dirs, analysis, tree, printed,
                       report, consolidated, clock, history, pc>>

GenerateTreeStructure ==
    /\ tree' = generate_tree_structure(fs, exclude_dirs)
    /\ op' = [name |-> "generate_tree_structure"]
    /\ scanned' = fs
    /\ UNCHANGED <<fs, exclude_arg, exclude_dirs, analysis, files_info, printed,
                   report, consolidated, clock, history, pc>>

\* collector.print_tree(tree)
PrintTree ==
    /\ printed' = print_tree(tree, <<>>)
    /\ op' = [name |-> "print_tree"]
    /\ scanned' = fs
    /\ UNCHANGED <<fs, exclude_arg, exclude_dirs, analysis, files_info, tree,
                   report, consolidated, clock, history, pc>>

NextWalk == CollectFiles \/ GenerateTreeStructure \/ PrintTree

SpecWalk == InitWalk /\ [][NextWalk]_vars

RECURSIVE FilesUnder(_, _)
\* every file of a directory tree, at any depth, with the directories that lead to it
FilesUnder(entries, dirs) ==
    UNION {IF e.kind = "file" THEN {[dirs |-> dirs, name |-> e.name]}
           ELSE FilesUnder(e.entries, Append(dirs, e.name)) : e \in Range(entries)}

\* the files collect_files is to return: the extension is allowed and no directory on
\* the way is excluded
Enumerable(entries, extensions, excluded) ==
    {f \in FilesUnder(entries, <<>>) :
        /\ suffix(f.name) \in Range(extensions)
        /\ Range(f.dirs) \cap excluded = {}}

PathsOf(records) == {records[i].path : i \in 1..Len(records)}

Collected == op.name = "collect_files"

\* C2: for every directory tree, collect_files returns exactly one record for each file
\* whose extension is in the allow-list and whose path has no excluded directory name in
\* it, and no record for a file inside an excluded directory, at any depth.
C2_CollectsExactlyTheAllowedFiles ==
    Collected =>
        LET want == Enumerable(scanned, op.extensions, exclude_dirs)
        IN /\ PathsOf(files_info) = {JoinPath(Append(f.dirs, f.name)) : f \in want}
           /\ Len(files_info) = Cardinality(want)
           /\ \A f \in FilesUnder(scanned, <<>>) :
                 Range(f.dirs) \cap exclude_dirs # {}
                     => JoinPath(Append(f.dirs, f.name)) \notin PathsOf(files_info)

\* a tree with a file of an allowed extension inside an excluded directory and one
\* outside, of which the one outside alone was collected
C2_Witness ==
    /\ Collected
    /\ Len(files_info) = 1
    /\ \E f \in FilesUnder(scanned, <<>>) :
          /\ f.dirs # <<>>
          /\ f.dirs[1] \in exclude_dirs
          /\ suffix(f.name) \in Range(op.extensions)

TopLevelDirs(dict) ==
    {dict.items[i].name : i \in {j \in 1..Len(dict.items) : dict.items[j].sub # FileMarker}}

\* C10: the directory names that collect_files and generate_tree_structure prune are
\* exactly the exclude_dirs set handed to the constructor, whenever one is handed: with
\* the empty set nothing is pruned.
C10_PrunesTheGivenSet ==
    exclude_arg # None =>
        /\ Collected =>
              PathsOf(files_info) =
                  {JoinPath(Append(f.dirs, f.name)) :
                      f \in Enumerable(scanned, op.extensions, exclude_arg[1])}
        /\ op.name = "generate_tree_structure" =>
              TopLevelDirs(tree) = Names(SelectSeq(scanned, LAMBDA e : e.kind = "dir"))
                                       \ exclude_arg[1]

----------------------------------------------------------------------------
(* The rendering of a tree *)

RECURSIVE AsDict(_)
\* the nested dict that lists the given entries in their order
AsDict(entries) ==
    [items |-> [i \in 1..Len(entries) |->
        [name |-> entries[i].name,
         sub |-> IF entries[i].kind = "file" THEN FileMarker
                 ELSE AsDict(entries[i].entries)]]]

B_PY == <<"b", DOT, "p", "y">>
LIB == <<"l", "i", "b">>

\* the trees handed to print_tree: files and directories in any order
TreeInputs ==
    {AsDict(f) : f \in Forests(MaxTreeNodes, {PlainFile(A_PY), PlainFile(B_PY)}, {SUB, LIB})}

InitTree ==
    /\ fs = <<>>
    /\ Construct(None)
    /\ scanned = <<>>
    /\ op = [name |-> "init"]
    /\ analysis = None
    /\ files_info = <<>>
    /\ tree \in TreeInputs
    /\ printed = <<>>
    /\ report = None
    /\ consolidated = None
    /\ clock = 0
    /\ history = <<>>
    /\ pc = "report"

NextTree == PrintTree

SpecTree == InitTree /\ [][NextTree]_vars

IsDir(item) == item.sub # FileMarker

RECURSIVE Positions(_)
\* the places of a tree's items: the index at each level, from the top
Positions(dict) ==
    UNION {{<<i>>} \cup (IF IsDir(dict.items[i])
                         THEN {<<i>> \o q : q \in Positions(dict.items[i].sub)}
                         ELSE {}) : i \in 1..Len(dict.items)}

RECURSIVE LevelOf(_, _)
\* the items of the level on which the item at place p stands
LevelOf(dict, p) ==
    IF Len(p) = 1 THEN dict.items ELSE LevelOf(dict.items[Head(p)].sub, Tail(p))

ItemAt(dict, p) == LevelOf(dict, p)[p[Len(p)]]

IsLastOfLevel(dict, p) == p[Len(p)] = Len(LevelOf(dict, p))

\* depth first: an item before its children, the children before the next item
Before(p, q) ==
    \/ Len(p) < Len(q) /\ SubSeq(q, 1, Len(p)) = p
    \/ \E i \in 1..Len(p) :
          /\ i <= Len(q)
          /\ SubSeq(p, 1, i - 1) = SubSeq(q, 1, i - 1)
          /\ p[i] < q[i]

LineOf(dict, p) ==
    [j \in 1..(Len(p) - 1) |->
        IF IsLastOfLevel(dict, SubSeq(p, 1, j)) THEN BLANK ELSE BAR]
    \o <<IF IsLastOfLevel(dict, p) THEN CORNER ELSE TEE>>
    \o ItemAt(dict, p).name
    \o (IF IsDir(ItemAt(dict, p)) THEN <<"/">> ELSE <<>>)

\* C8: print_tree renders a nested tree depth first; on every level exactly the last
\* item has the corner connector and the others the tee; a directory's name is followed
\* by '/', a file's by nothing; the prefix of a line is one block per ancestor, the bar
\* block for an ancestor that was not the last of its level, the blank one for one that was.
C8_TreeLines ==
    op.name = "print_tree" =>
        LET places == Positions(tree)
        IN /\ Len(printed) = Cardinality(places)
           /\ \A p \in places :
                 printed[1 + Cardinality({q \in places : Before(q, p)})] = LineOf(tree, p)

\* the tree of a.py and sub/ with b.py in it has been printed: a.py with the tee, sub/
\* with the corner, b.py under a blank block
C8_Witness ==
    /\ op.name = "print_tree"
    /\ printed = <<<<TEE>> \o A_PY, <<CORNER>> \o SUB \o <<"/">>, <<BLANK, CORNER>> \o B_PY>>

----------------------------------------------------------------------------
(* The summary report *)

SUMMARY_MD ==
    <<"p", "r", "o", "j", "e", "c", "t", "_", "s", "u", "m", "m", "a", "r", "y", DOT, "m", "d">>

\* k functions, the one of the greatest name first
RECURSIVE FunctionsDown(_, _)
FunctionsDown(letter, k) ==
    IF k = 0 THEN <<>>
    ELSE <<FunctionDef(<<letter>> \o Digits(k), <<>>, None, <<>>)>> \o FunctionsDown(letter, k - 1)

Contents ==
    {[bytes |-> <<"x", LF>>, tree |-> SyntaxError],
     [bytes |-> <<BAD>>, tree |-> Module(None, <<>>)],
     [bytes |-> <<"x", LF>>, tree |-> Module(None, FunctionsDown("g", 11))],
     [bytes |-> <<"x">>, tree |-> Module(None, FunctionsDown("f", 10))],
     [bytes |-> <<LF, "x">>,
      tree |-> Module(Some(<<"d">>),
                      <<Import(<<os, re>>),
                        ClassDef(<<"C">>, Some(<<"d", "o", "c">>),
                                 <<FunctionDef(<<"m">>, <<<<"s", "e", "l", "f">>>>, None, <<>>)>>)>>)]}

ReportFiles ==
    {FileEntry(name, c.bytes, c.tree, TRUE) : name \in {A_PY, B_PY}, c \in Contents}
    \cup {PlainFile(B_MD)}

InitReport ==
    /\ fs \in Forests(MaxFiles, ReportFiles, {SUB})
    /\ Construct(None)
    /\ Untouched

\* generate_summary_report(), the collector being that of the directory '.'
GenerateSummaryReport ==
    /\ clock < MaxCalls
    /\ LET lines == summary_report(fs, exclude_dirs, clock, <<>>)
       IN /\ report' = Some(lines)
          /\ fs' = WriteFile(fs, SUMMARY_MD, Render(lines), SyntaxError)
    /\ clock' = clock + 1
    /\ op' = [name |-> "generate_summary_report"]
    /\ scanned' = fs
    /\ UNCHANGED <<exclude_arg, exclude_dirs, analysis, files_info, tree, printed,
                   consolidated, history, pc>>

NextReport == GenerateSummaryReport

SpecReport == InitReport /\ [][NextReport]_vars

Reported == op.name = "generate_summary_report"

FileAt(top, f) == Resolve(top, Append(f.dirs, f.name))[1]

\* the files of the default extensions that the walk reaches, and the .py ones among them
Tracked == Enumerable(scanned, default_extensions, exclude_dirs)
TrackedPython == {f \in Tracked : suffix(f.name) = PY}

\* reading, decoding or parsing the file fails
Fails(file) ==
    \/ ~file.readable
    \/ \E i \in 1..Len(file.bytes) : file.bytes[i] = BAD
    \/ "error" \in DOMAIN file.tree

Failing == {f \in TrackedPython : Fails(FileAt(scanned, f))}
Analysable == TrackedPython \ Failing

TextLines(bytes) ==
    RawLineBreaks(bytes) + (IF bytes = <<>> \/ EndsWithLineBreak(bytes) THEN 0 ELSE 1)

RECURSIVE SumOf(_)
\* the sum of the values of a function
SumOf(count) ==
    IF DOMAIN count = {} THEN 0
    ELSE LET f == CHOOSE g \in DOMAIN count : TRUE
         IN count[f] + SumOf([g \in DOMAIN count \ {f} |-> count[g]])

NodesOfType(f, type) ==
    SelectSeq(Descend(FileAt(scanned, f).tree.body), LAMBDA n : n.type = type)

ImportStrings(f) ==
    UNION {Range(n.names) : n \in Range(NodesOfType(f, "Import"))}
    \cup {FromImportString(n) :
            n \in {m \in Range(NodesOfType(f, "ImportFrom")) : m.module # None}}

\* the value of the statistics line of a kind
Stat(kind) ==
    (CHOOSE l \in Range(report[1]) : l.kind = kind).detail

LinesOfKind(kind) == SelectSeq(report[1], LAMBDA l : l.kind = kind)

\* C3: when the parsing or the decoding of a .py file fails, the analysis bears the
\* error and nothing is raised: the report is made, the file counts among the files and
\* among the Python files, adds nothing to the lines of code and nothing to the
\* functions, classes and imports.
C3_FailedFileCountsButAddsNothing ==
    Reported =>
        /\ Stat("files") = Digits(Cardinality(Tracked))
        /\ Stat("python files") = Digits(Cardinality(TrackedPython))
        /\ Stat("lines of code") =
              Digits(SumOf([f \in Analysable |-> TextLines(FileAt(scanned, f).bytes)]))
        /\ Stat("functions") =
              Digits(SumOf([f \in Analysable |-> Len(NodesOfType(f, "FunctionDef"))]))
        /\ Stat("classes") =
              Digits(SumOf([f \in Analysable |-> Len(NodesOfType(f, "ClassDef"))]))
        /\ Stat("unique imports") =
              Digits(Cardinality(UNION {ImportStrings(f) : f \in Analysable}))
        /\ \A f \in Failing : \A l \in Range(report[1]) :
              l.kind \in {"function", "class"} => l.detail # JoinPath(Append(f.dirs, f.name))

\* a report over a file with a line of text that does not parse and a file that is
\* analysed: two Python files, and the lines of the analysed one alone
C3_Witness ==
    /\ Reported
    /\ \E f \in Failing :
          /\ "error" \in DOMAIN FileAt(scanned, f).tree
          /\ TextLines(FileAt(scanned, f).bytes) = 1
    /\ Stat("files") = <<"2">>
    /\ Stat("python files") = <<"2">>
    /\ Stat("lines of code") = <<"2">>

CollectedFunctions ==
    SumOf([f \in Analysable |-> Len(NodesOfType(f, "FunctionDef"))])

CollectedClasses ==
    SumOf([f \in Analysable |-> Len(NodesOfType(f, "ClassDef"))])

\* how many functions of a name were collected
CollectedNamed(name) ==
    SumOf([f \in Analysable |->
              Len(SelectSeq(NodesOfType(f, "FunctionDef"), LAMBDA n : n.name = name))])

\* C7: the classes section is absent exactly when no class was collected, the functions
\* section exactly when no function was; with more than 20 functions collected the
\* functions section lists exactly 20, the first 20 in the order of their names.
C7_SectionsAndTopTwenty ==
    Reported =>
        LET listed == LinesOfKind("function")
        IN /\ (LinesOfKind("## classes") = <<>>) <=> (CollectedClasses = 0)
           /\ (LinesOfKind("## functions") = <<>>) <=> (CollectedFunctions = 0)
           /\ CollectedFunctions > 20 =>
                 /\ Len(listed) = 20
                 /\ \A i, j \in 1..Len(listed) :
                       i < j => ~TextLess(listed[j].name, listed[i].name)
                 /\ \A i \in 1..Len(listed) :
                       /\ Cardinality({j \in 1..Len(listed) : listed[j].name = listed[i].name})
                              <= CollectedNamed(listed[i].name)
                       /\ TextLess(listed[i].name, listed[Len(listed)].name)
                              => Cardinality({j \in 1..Len(listed) :
                                                 listed[j].name = listed[i].name})
                                     = CollectedNamed(listed[i].name)
                 /\ \A f \in Analysable : \A n \in Range(NodesOfType(f, "FunctionDef")) :
                       TextLess(n.name, listed[Len(listed)].name)
                           => \E i \in 1..Len(listed) : listed[i].name = n.name

\* a report over 21 functions and no class: 20 functions are listed, and no classes
\* section
C7_Witness ==
    /\ Reported
    /\ Stat("functions") = <<"2", "1">>
    /\ Len(LinesOfKind("function")) = 20
    /\ LinesOfKind("## classes") = <<>>
    /\ LinesOfKind("## functions") # <<>>

----------------------------------------------------------------------------
(* The consolidated code *)

CONSOLIDATED_PY ==
    <<"c", "o", "n", "s", "o", "l", "i", "d", "a", "t", "e", "d", "_", "c", "o", "d", "e",
      DOT, "p", "y">>

ConsolidateFileSamples ==
    {FileEntry(name, c.bytes, c.tree, c.readable) :
        name \in {A_PY, B_PY},
        c \in {[bytes |-> <<"x", CR, LF>>, readable |-> TRUE,
                tree |-> Module(None, <<FunctionDef(<<"f">>, <<>>, None, <<>>),
                                        ClassDef(<<"C">>, None, <<>>)>>)],
               [bytes |-> <<"x", "x">>, readable |-> TRUE, tree |-> SyntaxError],
               [bytes |-> <<"x", BAD>>, readable |-> TRUE, tree |-> Module(None, <<>>)],
               [bytes |-> <<"x">>, readable |-> FALSE, tree |-> Module(None, <<>>)]}}

\* the max_file_size argument
SizeLimits == {2, default_max_file_size}

InitConsolidate ==
    /\ fs \in Forests(MaxFiles, ConsolidateFileSamples, {SUB})
    /\ Construct(None)
    /\ Untouched

\* create_consolidated_code(max_file_size=...), the collector being that of the
\* directory '.'; at most one enumerated file becomes unreadable before it is read again
CreateConsolidatedCode ==
    /\ clock < MaxCalls
    /\ \E max_file_size \in SizeLimits :
       \E lost \in {l \in SUBSET PathsOf(collect_files(fs, exclude_dirs, None)) :
                       Cardinality(l) <= 1} :
           LET lines == consolidated_code(fs, exclude_dirs, clock, max_file_size, lost)
           IN /\ consolidated' = Some(lines)
              /\ fs' = WriteFile(fs, CONSOLIDATED_PY, Render(lines),
                                 ParseConsolidated(fs, lines))
              /\ op' = [name |-> "create_consolidated_code",
                        max_file_size |-> max_file_size, lost |-> lost]
    /\ clock' = clock + 1
    /\ scanned' = fs
    /\ UNCHANGED <<exclude_arg, exclude_dirs, analysis, files_info, tree, printed,
                   report, history, pc>>

NextConsolidate == CreateConsolidatedCode

SpecConsolidate == InitConsolidate /\ [][NextConsolidate]_vars

Consolidated == op.name = "create_consolidated_code"

PathOf(f) == JoinPath(Append(f.dirs, f.name))

SizeOf(f) == Len(FileAt(scanned, f).bytes)

\* the banner lines of a file: the lines that carry its path
BannersOf(f) == SelectSeq(consolidated[1], LAMBDA l : l.name = PathOf(f))

\* the contents embedded for a file: the content lines whose next banner above is its own
ContentsOf(f) ==
    LET lines == consolidated[1]
        owner(j) == CHOOSE i \in 1..j :
                        /\ lines[i].name # <<>>
                        /\ \A k \in (i + 1)..j : lines[k].name = <<>>
        owned == {j \in 1..Len(lines) :
                     /\ lines[j].kind = "content"
                     /\ \E i \in 1..j : lines[i].name # <<>>
                     /\ lines[owner(j)].name = PathOf(f)}
    IN [k \in 1..Cardinality(owned) |->
           lines[CHOOSE j \in owned : Cardinality({i \in owned : i <= j}) = k].detail]

\* every content line stands below the banner of a file
ContentsAreOwned ==
    \A j \in 1..Len(consolidated[1]) :
        consolidated[1][j].kind = "content"
            => \E i \in 1..j : consolidated[1][i].name # <<>>

PlaceholderOnly(f) ==
    /\ BannersOf(f) = <<Line("# too big", PathOf(f), Digits(SizeOf(f)))>>
    /\ ContentsOf(f) = <<>>

\* the file can be opened and decoded when it is read again
Readable(f) ==
    /\ PathOf(f) \notin op.lost
    /\ FileAt(scanned, f).readable
    /\ \A i \in 1..SizeOf(f) : FileAt(scanned, f).bytes[i] # BAD

\* the text with every "\r\n" and every other "\r" made "\n"
NewlinesAsLF(bytes) ==
    LET kept == {i \in 1..Len(bytes) : ~(bytes[i] = LF /\ i > 1 /\ bytes[i - 1] = CR)}
    IN [k \in 1..Cardinality(kept) |->
           LET i == CHOOSE j \in kept : Cardinality({h \in kept : h <= j}) = k
           IN IF bytes[i] = CR THEN LF ELSE bytes[i]]

\* C4 as stated: a .py file of more bytes than max_file_size has the placeholder banner
\* alone, with its path and size, and none of its content; one of at most max_file_size
\* bytes has the normal banner followed by its exact content.
C4_PlaceholderOrVerbatim ==
    Consolidated =>
        /\ ContentsAreOwned
        /\ \A f \in TrackedPython :
              IF SizeOf(f) > op.max_file_size THEN PlaceholderOnly(f)
              ELSE /\ BannersOf(f) = <<Line("# file", PathOf(f), <<>>)>>
                   /\ ContentsOf(f) = <<FileAt(scanned, f).bytes>>

\* C4 as amended: a .py file of more bytes than max_file_size has the placeholder banner
\* alone and none of its content; one of at most max_file_size bytes that can be read
\* and decoded has the normal banner followed by its text as read in text mode, which is
\* its content with "\r\n" and "\r" made "\n", and so its exact content when it holds
\* no "\r".
C4_PlaceholderOrText ==
    Consolidated =>
        /\ ContentsAreOwned
        /\ \A f \in TrackedPython :
              IF SizeOf(f) > op.max_file_size THEN PlaceholderOnly(f)
              ELSE Readable(f) =>
                      /\ BannersOf(f) = <<Line("# file", PathOf(f), <<>>)>>
                      /\ ContentsOf(f) = <<NewlinesAsLF(FileAt(scanned, f).bytes)>>
                      /\ CR \notin Range(FileAt(scanned, f).bytes)
                             => ContentsOf(f) = <<FileAt(scanned, f).bytes>>

\* a file of exactly max_file_size bytes was embedded and a larger one was not
C4_Witness ==
    /\ Consolidated
    /\ \E f, g \in TrackedPython :
          /\ SizeOf(f) = op.max_file_size
          /\ ContentsOf(f) = <<<<"x", "x">>>>
          /\ SizeOf(g) = op.max_file_size + 1
          /\ PlaceholderOnly(g)

\* str(e) of what reading the file again raises
FailureMessage(f) ==
    IF PathOf(f) \in op.lost THEN "FileNotFoundError"
    ELSE IF ~FileAt(scanned, f).readable THEN "PermissionError"
    ELSE "UnicodeDecodeError"

\* C9: when the reading of an enumerated file of at most max_file_size bytes fails, the
\* output holds for it the error banner with the failure message alone, no normal banner
\* and no content; every other file is still processed, and the output is written and
\* returned.
C9_ReadErrorBanner ==
    Consolidated =>
        /\ \A f \in TrackedPython :
              (SizeOf(f) <= op.max_file_size /\ ~Readable(f)) =>
                  /\ BannersOf(f) = <<Line("# read error", PathOf(f), <<FailureMessage(f)>>)>>
                  /\ ContentsOf(f) = <<>>
        /\ (\E f \in TrackedPython : SizeOf(f) <= op.max_file_size /\ ~Readable(f)) =>
              /\ \A g \in TrackedPython : Len(BannersOf(g)) = 1
              /\ Len(SelectSeq(consolidated[1], LAMBDA l : l.name # <<>>))
                     = Cardinality(TrackedPython)
              /\ Len(SelectSeq(consolidated[1], LAMBDA l : l.kind = "# file"))
                     = Cardinality({g \in TrackedPython :
                                       SizeOf(g) <= op.max_file_size /\ Readable(g)})
              /\ CONSOLIDATED_PY \in Names(fs)
              /\ EntryNamed(fs, CONSOLIDATED_PY).bytes = Render(consolidated[1])

\* a file that became unreadable after the enumeration has its error banner alone, and
\* another file was embedded, the last of the output
C9_Witness ==
    /\ Consolidated
    /\ \E f, g \in TrackedPython :
          /\ f # g
          /\ BannersOf(f) = <<Line("# read error", PathOf(f), <<"FileNotFoundError">>)>>
          /\ BannersOf(g) = <<Line("# file", PathOf(g), <<>>)>>
          /\ ContentsOf(g) # <<>>
    /\ consolidated[1][Len(consolidated[1]) - 1].kind = "content"

----------------------------------------------------------------------------
(* The entry point: the script run in the directory it collects *)

MainFiles ==
    {FileEntry(A_PY, <<"x", LF>>, Module(None, <<FunctionDef(<<"f">>, <<>>, None, <<>>)>>), TRUE),
     FileEntry(A_PY, <<"x">>, SyntaxError, TRUE),
     FileEntry(B_PY, <<>>, Module(None, <<Import(<<os>>)>>), TRUE),
     PlainFile(B_MD)}

InitMain ==
    /\ fs \in Forests(MaxFiles, MainFiles, {SUB})
    /\ Construct(None)
    /\ Untouched

\* report = collector.generate_summary_report()
MainReport ==
    /\ pc = "report"
    /\ Len(history) < MaxRuns
    /\ LET lines == summary_report(fs, exclude_dirs, clock, <<>>)
       IN /\ report' = Some(lines)
          /\ fs' = WriteFile(fs, SUMMARY_MD, Render(lines), SyntaxError)
    /\ clock' = clock + 1
    /\ op' = [name |-> "generate_summary_report"]
    /\ scanned' = fs
    /\ pc' = "consolidate"
    /\ UNCHANGED <<exclude_arg, exclude_dirs, analysis, files_info, tree, printed,
                   consolidated, history>>

\* consolidated = collector.create_consolidated_code()
MainConsolidate ==
    /\ pc = "consolidate"
    /\ LET lines == consolidated_code(fs, exclude_dirs, clock, default_max_file_size, {})
       IN /\ consolidated' = Some(lines)
          /\ fs' = WriteFile(fs, CONSOLIDATED_PY, Render(lines), ParseConsolidated(fs, lines))
    /\ clock' = clock + 1
    /\ op' = [name |-> "create_consolidated_code",
              max_file_size |-> default_max_file_size, lost |-> {}]
    /\ scanned' = fs
    /\ pc' = "tree"
    /\ UNCHANGED <<exclude_arg, exclude_dirs, analysis, files_info, tree, printed,
                   report, history>>

\* tree = collector.generate_tree_structure(); collector.print_tree(tree): the run ends
MainTree ==
    /\ pc = "tree"
    /\ tree' = generate_tree_structure(fs, exclude_dirs)
    /\ printed' = print_tree(tree', <<>>)
    /\ history' = Append(history, [report |-> report[1], consolidated |-> consolidated[1]])
    /\ op' = [name |-> "print_tree"]
    /\ scanned' = fs
    /\ pc' = "report"
    /\ UNCHANGED <<fs, exclude_arg, exclude_dirs, analysis, files_info, report,
                   consolidated, clock>>

NextMain == MainReport \/ MainConsolidate \/ MainTree

SpecMain == InitMain /\ [][NextMain]_vars

\* an output without its timestamp line
WithoutDate(lines) == SelectSeq(lines, LAMBDA l : l.kind # "date")

\* C1: the entry point run twice in succession in the directory '.', nothing else
\* changing the tree, gives a second report and a second consolidated file that are the
\* first run's byte for byte, but for the timestamp line.
C1_SecondRunRepeatsFirst ==
    Len(history) >= 2 =>
        /\ WithoutDate(history[2].report) = WithoutDate(history[1].report)
        /\ WithoutDate(history[2].consolidated) = WithoutDate(history[1].consolidated)

====
